---- MODULE Spec2Model ----
(***************************************************************************)
(* A model of pynliner/soupselect.py: the right-to-left scanner of a CSS   *)
(* selector string, the compiler of one simple-selector token, the         *)
(* predicate library and the context-narrowing loop of select().           *)
(*                                                                         *)
(* Strings are sequences of one-character strings; the regular expressions *)
(* of the module are operators over such sequences that compute what       *)
(* re.search / re.findall / re.match compute on them.  A document tree is  *)
(* a sequence of node records in document order; node 0 is the             *)
(* BeautifulSoup object itself.                                            *)
(***************************************************************************)
EXTENDS Integers, Sequences, FiniteSets, TLC

VARIABLES soup, selector0, selector, handle_token, operator,
          current_context, status, result, seeded

vars == <<soup, selector0, selector, handle_token, operator,
          current_context, status, result, seeded>>

(***************************************************************************)
(* Bounds of the enumerated inputs.                                        *)
(***************************************************************************)
\* Largest number of nodes (below the soup object) of an enumerated tree.
MaxNodes == 3
\* Largest length of an enumerated selector string over ScanAlphabet.
MaxSelLen == 4

(***************************************************************************)
(* Python values that are not nodes.                                       *)
(***************************************************************************)
\* Python's None (a missing parent, sibling or search result).
None == -1
\* Python's False, as returned by checker().
FalseVal == -2
\* checker() did not return: a checker function raised AttributeError
\* (a method called on None).
AttributeErr == -3
\* checker() did not return: is_nth_child raised its expression error.
NthExprErr == -4

(***************************************************************************)
(* Characters and character classes of the regular expressions.            *)
(***************************************************************************)
Digits == {"0", "1", "2", "3", "4", "5", "6", "7", "8", "9"}

Lower == {"a", "b", "c", "d", "e", "f", "g", "h", "i", "j", "k", "l", "m",
          "n", "o", "p", "q", "r", "s", "t", "u", "v", "w", "x", "y", "z"}

Upper == {"A", "B", "C", "D", "E", "F", "G", "H", "I", "J", "K", "L", "M",
          "N", "O", "P", "Q", "R", "S", "T", "U", "V", "W", "X", "Y", "Z"}

\* \s of the re module, restricted to the characters a selector here can hold.
WhiteSpace == {" "}

\* [_0-9a-zA-Z-#.:*()+] of SELECTOR_TOKEN_PATTERN.
TokenChars == {"_"} \cup Digits \cup Lower \cup Upper
              \cup {"-", "#", ".", ":", "*", "(", ")", "+"}

\* [>~+] of the combinator pattern.
CombinatorChars == {">", "~", "+"}

\* [=~\|\^\$\*] of ATTRIBUTE_PATTERN (the operator group).
AttrOpChars == {"=", "~", "|", "^", "$", "*"}

\* [a-zA-Z0-9] of the tag pattern.
TagChars == Digits \cup Lower \cup Upper

\* [a-zA-Z0-9_-] of the id and class patterns.
NameChars == TagChars \cup {"_", "-"}

\* The characters [^:.#(*\[] excludes in PSEUDO_CLASS_PATTERN.
PseudoStopChars == {":", ".", "#", "(", "*", "["}

(***************************************************************************)
(* Sequence helpers (str methods).                                         *)
(***************************************************************************)
\* The element of a one-element set.  Only({F(x) : x \in {e}}) is F(e) with
\* e evaluated once.
Only(S) == CHOOSE x \in S : TRUE

Min(S) == Only({(CHOOSE x \in T : \A y \in T : x <= y) : T \in {S}})

Max(S) == Only({(CHOOSE x \in T : \A y \in T : x >= y) : T \in {S}})

Suffix(s, i) == SubSeq(s, i, Len(s))

Prefix(s, n) == SubSeq(s, 1, n)

\* sub occurs in s at index i.
OccursAt(s, sub, i) ==
    /\ i >= 1
    /\ i + Len(sub) - 1 <= Len(s)
    /\ SubSeq(s, i, i + Len(sub) - 1) = sub

\* s.rsplit(sep, 1)[0]: what precedes the last occurrence of sep (all of s
\* when sep does not occur).
RSplitHead(s, sep) ==
    LET occ == {i \in 1..Len(s) : OccursAt(s, sep, i)}
    IN  IF occ = {} THEN s ELSE Prefix(s, Max(occ) - 1)

\* s.rstrip()
RStrip(s) ==
    LET keep == {i \in 1..Len(s) : s[i] \notin WhiteSpace}
    IN  IF keep = {} THEN <<>> ELSE Prefix(s, Max(keep))

\* s.startswith(v)
StartsWith(s, v) == OccursAt(s, v, 1)

\* s.endswith(v)
EndsWith(s, v) == Len(v) <= Len(s) /\ OccursAt(s, v, Len(s) - Len(v) + 1)

\* v in s, for strings
Contains(s, v) == \E i \in 1..(Len(s) + 1) : OccursAt(s, v, i)

\* v in s.split(): v is one of the whitespace-separated words of s.
InSplit(s, v) ==
    /\ v # <<>>
    /\ \A k \in 1..Len(v) : v[k] \notin WhiteSpace
    /\ \E i \in 1..Len(s) :
          /\ OccursAt(s, v, i)
          /\ (i = 1 \/ s[i - 1] \in WhiteSpace)
          /\ (i + Len(v) > Len(s) \/ s[i + Len(v)] \in WhiteSpace)

\* The elements of a set S of integers, ascending: the i-th has i - 1
\* elements of S below it.
Ascending(S) ==
    [i \in 1..Cardinality(S) |->
        CHOOSE x \in S : Cardinality({y \in S : y < x}) = i - 1]

SortedSeq(S) == Only({Ascending(T) : T \in {S}})

\* The longest run of characters of class C in s that starts at index i.
RunEnd(s, i, C) ==
    LET stops == {k \in i..Len(s) : s[k] \notin C}
    IN  IF stops = {} THEN Len(s) ELSE Min(stops) - 1

(***************************************************************************)
(* The scanner: SELECTOR_TOKEN_PATTERN and the combinator pattern.         *)
(***************************************************************************)
\* First alternative of SELECTOR_TOKEN_PATTERN at index i: token characters
\* up to the end of the string.
TokenAlt1(s, i) ==
    /\ i <= Len(s)
    /\ \A k \in i..Len(s) : s[k] \in TokenChars

\* Second alternative at index i: one bracketed clause ending the string.
TokenAlt2(s, i) ==
    /\ i + 2 <= Len(s)
    /\ s[i] = "["
    /\ s[Len(s)] = "]"
    /\ \A k \in (i + 1)..(Len(s) - 1) : s[k] # "]"

\* The indices at which SELECTOR_TOKEN_PATTERN matches up to the end.
TokenStarts(s) == {i \in 1..Len(s) : TokenAlt1(s, i) \/ TokenAlt2(s, i)}

\* SELECTOR_TOKEN_PATTERN.search(selector) found a match.
HasToken(s) == TokenStarts(s) # {}

\* match.groups(1)[0]: search() returns the leftmost match.
TokenOf(s) == Suffix(s, Min(TokenStarts(s)))

\* RemoveToken with the split dropped: the token stays in the selector.
RemoveTokenKeepsIt(s, token) == Only({RStrip(head) : head \in {s}})

\* selector.rsplit(token, 1)[0].rstrip()
RemoveToken(s, token) == Only({RStrip(head) : head \in {RSplitHead(s, token)}})

\* The indices at which ([>~+]+)$ matches.
OperatorStarts(s) ==
    {i \in 1..Len(s) : \A k \in i..Len(s) : s[k] \in CombinatorChars}

\* re.search('([>~+]+)$', selector) found a match.
HasOperator(s) == OperatorStarts(s) # {}

OperatorOf(s) == Suffix(s, Min(OperatorStarts(s)))

\* selector.rsplit(operator, 1)[0].rstrip()
RemoveOperator(s, op) == Only({RStrip(head) : head \in {RSplitHead(s, op)}})

(***************************************************************************)
(* The compiler of one token.                                              *)
(***************************************************************************)
\* A character the attribute group [^\s\]=~\|\^\$\*] accepts.
IsAttrChar(c) == c \notin (WhiteSpace \cup {"]"} \cup AttrOpChars)

\* The groups of the match of ATTRIBUTE_PATTERN whose attribute group is
\* token[j+1..aEnd], whose operator group ends at oEnd and whose "]" is at
\* close: "=?" takes a following "=", the value group the rest.
AttributeGroups(token, j, aEnd, oEnd, close) ==
    [kind      |-> "attr",
     attribute |-> SubSeq(token, j + 1, aEnd),
     op        |-> SubSeq(token, aEnd + 1, oEnd),
     value     |-> SubSeq(token,
                          IF oEnd + 1 < close /\ token[oEnd + 1] = "="
                          THEN oEnd + 2 ELSE oEnd + 1,
                          close - 1)]

\* The operator group [=~\|\^\$\*]? after an attribute group ending at aEnd.
AttributeOperator(token, j, aEnd, close) ==
    Only({AttributeGroups(token, j, aEnd, oEnd, close) :
            oEnd \in {IF aEnd + 1 < close /\ token[aEnd + 1] \in AttrOpChars
                      THEN aEnd + 1 ELSE aEnd}})

\* The match of ATTRIBUTE_PATTERN that starts at the "[" at index j and
\* ends at the "]" at index close: the attribute group is greedy.
AttributeMatchAt(token, j, close) ==
    Only({AttributeOperator(token, j, aEnd, close) :
            aEnd \in {Min({k \in (j + 1)..(close - 1) : ~IsAttrChar(token[k + 1])})}})

\* The indices at which ATTRIBUTE_PATTERN matches: a "[", one attribute
\* character at least, and a "]" further on.
AttributeStarts(token) ==
    {j \in 1..Len(token) :
        /\ token[j] = "["
        /\ j + 1 <= Len(token)
        /\ IsAttrChar(token[j + 1])
        /\ \E e \in (j + 2)..Len(token) : token[e] = "]"}

\* The first "]" after index j.
NextClose(token, j) == Min({e \in (j + 2)..Len(token) : token[e] = "]"})

\* The match of ATTRIBUTE_PATTERN that starts at index j.
AttributeMatchFrom(token, j) ==
    Only({AttributeMatchAt(token, j, close) : close \in {NextClose(token, j)}})

\* ATTRIBUTE_PATTERN.findall(token), as a sequence of
\* (attribute, operator, value) records.  The strings here hold no quote
\* character, so both ["\']? match the empty string and the value group
\* [^\]"]* runs to the next "]".  A token holds "]" only as its last
\* character, so at most one clause is found.
AttributeMatches(token) ==
    IF AttributeStarts(token) = {} THEN <<>>
    ELSE << Only({AttributeMatchFrom(token, j) :
                    j \in {Min(AttributeStarts(token))}}) >>

\* Where the longest sequence of ([^:.#(*\[]|\([^)]+\)) units that starts at
\* index q ends (q - 1 when no unit matches at q).
RECURSIVE UnitsEnd(_, _)
\* The index of the first ")" after index q (0: none).
FirstClose(token, q) ==
    Only({IF closes = {} THEN 0 ELSE Min(closes) :
            closes \in {{e \in (q + 1)..Len(token) : token[e] = ")"}}})

\* The unit \([^)]+\) at the "(" at index q, whose first ")" is at index
\* close (0: none).
ParenUnitEnd(token, q, close) ==
    IF close > q + 1 THEN UnitsEnd(token, close + 1) ELSE q - 1

UnitsEnd(token, q) ==
    IF q > Len(token) THEN q - 1
    ELSE IF token[q] \notin PseudoStopChars
    THEN Only({UnitsEnd(token, r) : r \in {q + 1}})
    ELSE IF token[q] = "("
    THEN Only({ParenUnitEnd(token, q, close) : close \in {FirstClose(token, q)}})
    ELSE q - 1

\* The matches of PSEUDO_CLASS_PATTERN from the ":" at index p on, whose
\* units end at index e (below p + 1: no match at p).
RECURSIVE PseudoClassNames(_, _)
PseudoClassNamesAt(token, p, e) ==
    IF e >= p + 1
    THEN <<SubSeq(token, p + 1, e)>> \o PseudoClassNames(token, e + 1)
    ELSE PseudoClassNames(token, p + 1)

\* [m.groups(1)[0] for m in PSEUDO_CLASS_PATTERN.finditer(token)], scanning
\* from index p.
PseudoClassNames(token, p) ==
    IF p > Len(token) THEN <<>>
    ELSE IF token[p] = ":"
    THEN Only({PseudoClassNamesAt(token, p, e) : e \in {UnitsEnd(token, p + 1)}})
    ELSE Only({PseudoClassNames(token, q) : q \in {p + 1}})

\* The matches of mark + '([a-zA-Z0-9_-]+)' from the mark at index p on,
\* whose name ends at index e.
RECURSIVE MarkedNames(_, _, _)
MarkedNamesAt(token, mark, p, e) ==
    <<SubSeq(token, p + 1, e)>> \o MarkedNames(token, mark, e + 1)

\* re.findall(mark + '([a-zA-Z0-9_-]+)', token), scanning from index p:
\* the ids for mark "#", the classes for mark ".".
MarkedNames(token, mark, p) ==
    IF p >= Len(token) THEN <<>>
    ELSE IF token[p] = mark /\ token[p + 1] \in NameChars
    THEN Only({MarkedNamesAt(token, mark, p, e) :
                  e \in {RunEnd(token, p + 1, NameChars)}})
    ELSE Only({MarkedNames(token, mark, q) : q \in {p + 1}})

\* re.findall('^([a-zA-Z0-9]+)', token): empty or one leading tag name.
TagMatches(token) ==
    IF token # <<>> /\ token[1] \in TagChars
    THEN <<Prefix(token, RunEnd(token, 1, TagChars))>>
    ELSE <<>>

\* The pseudo-class checkers of a token, in the order of finditer.
PseudoCheckersOf(names) ==
    [i \in 1..Len(names) |->
        [kind |-> "pseudo", attribute |-> names[i], op |-> <<>>, value |-> <<>>]]

PseudoCheckers(token) ==
    Only({PseudoCheckersOf(names) : names \in {PseudoClassNames(token, 1)}})

\* What the token step derives from a token: the token, checker_functions (attribute
\* checkers first, then pseudo-class checkers), tag (any: True), ids, classes.
Compile(token) ==
    [token     |-> token,
     functions |-> AttributeMatches(token) \o PseudoCheckers(token),
     anyTag    |-> TagMatches(token) = <<>>,
     tag       |-> IF TagMatches(token) = <<>> THEN <<>> ELSE TagMatches(token)[1],
     ids       |-> MarkedNames(token, "#", 1),
     classes   |-> MarkedNames(token, ".", 1)]

(***************************************************************************)
(* The document tree (bs4).  soup is a sequence of node records            *)
(*   [parent, kind, name, class, attrs]                                    *)
(* in document order; kind is "tag", "ws" (whitespace-only text), "text"   *)
(* or "comment"; class is the list of class names; attrs is the set of the *)
(* other attributes as [name, value] records.  Node 0 is the soup object.  *)
(***************************************************************************)
\* The name of the BeautifulSoup object: no tag pattern can produce it.
DocumentName == <<"[", "d", "o", "c", "u", "m", "e", "n", "t", "]">>

IdAttr == <<"i", "d">>

Range(f) == {f[i] : i \in DOMAIN f}

\* isinstance(el, bs4.Tag): elements and the soup object.
IsTag(t, el) == el = 0 \/ (el >= 1 /\ t[el].kind = "tag")

NameOf(t, el) == IF el = 0 THEN DocumentName ELSE t[el].name

ClassOf(t, el) == IF el = 0 THEN <<>> ELSE t[el].class

AttrsOf(t, el) == IF el = 0 THEN {} ELSE t[el].attrs

\* el.has_attr(name)
HasAttr(t, el, name) == \E a \in AttrsOf(t, el) : a.name = name

\* el.get(name), for an attribute el has
AttrValue(t, el, name) == (CHOOSE a \in AttrsOf(t, el) : a.name = name).value

\* el.get(name, '')
AttrGetOrEmpty(t, el, name) ==
    IF HasAttr(t, el, name) THEN AttrValue(t, el, name) ELSE <<>>

\* el.parent
ParentOf(t, el) == IF el = 0 THEN None ELSE t[el].parent

\* el.previousSibling
PreviousSibling(t, el) ==
    LET before == {s \in 1..(el - 1) : t[s].parent = t[el].parent}
    IN  IF el = 0 \/ before = {} THEN None ELSE Max(before)

\* el.nextSibling
NextSibling(t, el) ==
    LET after == {s \in (el + 1)..Len(t) : t[s].parent = t[el].parent}
    IN  IF el = 0 \/ after = {} THEN None ELSE Min(after)

\* The strict ancestors of el, the soup object included.
RECURSIVE Ancestors(_, _)
Ancestors(t, el) ==
    IF el <= 0 THEN {}
    ELSE {t[el].parent} \cup Ancestors(t, t[el].parent)

\* What find_all, findParent and findPreviousSibling test on one node for
\* the arguments (tag, find_dict): the name, the id among ids, and for the
\* class the callable partial(contains, classes), which bs4 applies to each
\* value of the multi-valued class attribute and accepts as soon as one
\* value is among classes.
MatchesFind(t, el, c) ==
    /\ IsTag(t, el)
    /\ c.anyTag \/ NameOf(t, el) = c.tag
    /\ c.ids # <<>> =>
          /\ HasAttr(t, el, IdAttr)
          /\ AttrValue(t, el, IdAttr) \in Range(c.ids)
    /\ c.classes # <<>> =>
          \E k \in 1..Len(ClassOf(t, el)) : ClassOf(t, el)[k] \in Range(c.classes)

\* root.find_all(tag, find_dict): the matching descendants, document order.
FindAll(t, root, c) ==
    SortedSeq({d \in 1..Len(t) : root \in Ancestors(t, d) /\ MatchesFind(t, d, c)})

\* el.findParent(tag, find_dict): the nearest matching strict ancestor.
FindParent(t, el, c) ==
    LET found == {a \in Ancestors(t, el) : MatchesFind(t, a, c)}
    IN  IF found = {} THEN None ELSE Max(found)

\* el.findPreviousSibling(tag, find_dict): the nearest matching earlier
\* sibling.
FindPreviousSibling(t, el, c) ==
    LET found == {s \in 1..(el - 1) :
                     t[s].parent = t[el].parent /\ MatchesFind(t, s, c)}
    IN  IF el = 0 \/ found = {} THEN None ELSE Max(found)

(***************************************************************************)
(* The predicate library.                                                  *)
(***************************************************************************)
IsWhiteSpace(t, el) == el >= 1 /\ t[el].kind \in {"ws", "comment"}

RECURSIVE IsLastContentNode(_, _)
IsLastContentNode(t, el) ==
    IF el = None THEN TRUE
    ELSE IF IsWhiteSpace(t, el)
    THEN Only({IsLastContentNode(t, n) : n \in {NextSibling(t, el)}})
    ELSE FALSE

RECURSIVE IsFirstContentNode(_, _)
IsFirstContentNode(t, el) ==
    IF IsWhiteSpace(t, el)
    THEN Only({IsFirstContentNode(t, p) : p \in {PreviousSibling(t, el)}})
    ELSE el = None

\* The index the while loop of is_nth_child computes.
RECURSIVE NthIndex(_, _)
NthIndex(t, el) ==
    IF IsFirstContentNode(t, el) THEN 0
    ELSE (IF IsWhiteSpace(t, el) THEN 0 ELSE 1)
         + Only({NthIndex(t, p) : p \in {PreviousSibling(t, el)}})

DigitValue(c) ==
    CASE c = "0" -> 0 [] c = "1" -> 1 [] c = "2" -> 2 [] c = "3" -> 3
      [] c = "4" -> 4 [] c = "5" -> 5 [] c = "6" -> 6 [] c = "7" -> 7
      [] c = "8" -> 8 [] c = "9" -> 9

\* int(s) of a string of digits
RECURSIVE ParseInt(_)
ParseInt(s) ==
    IF s = <<>> THEN 0
    ELSE 10 * ParseInt(Prefix(s, Len(s) - 1)) + DigitValue(s[Len(s)])

\* The index of the [nN] that ends the first group of NTH_EXPR, 0 when the
\* group matches nothing (the digits are not followed by n).
NthGroupEnd(nth, d1) ==
    IF d1 + 1 <= Len(nth) /\ nth[d1 + 1] \in {"n", "N"} THEN d1 + 1 ELSE 0

\* Where the constant group starts: after the optional sign at index pos.
NthConstantStart(nth, pos) ==
    IF pos <= Len(nth) /\ nth[pos] \in {"-", "+"} THEN pos + 1 ELSE pos

\* The groups of the match, None when their part matched nothing.
NthGroups(nth, nEnd, cBeg, cEnd) ==
    [matched     |-> TRUE,
     coefficient |-> IF nEnd >= 2 THEN ParseInt(Prefix(nth, nEnd - 1)) ELSE None,
     constant    |-> IF cEnd >= cBeg THEN ParseInt(SubSeq(nth, cBeg, cEnd))
                     ELSE None]

\* The match from the constant group at index cBeg on.
NthConstant(nth, nEnd, cBeg) ==
    Only({NthGroups(nth, nEnd, cBeg, cEnd) : cEnd \in {RunEnd(nth, cBeg, Digits)}})

\* The match from the optional sign on.
NthAfterGroup(nth, nEnd) ==
    Only({NthConstant(nth, nEnd, cBeg) :
            cBeg \in {NthConstantStart(nth, nEnd + 1)}})

\* re.match(NTH_EXPR, nth).  Every part of NTH_EXPR is optional, so the
\* match succeeds on every string (on the empty prefix at least).
NthMatch(nth) ==
    Only({NthAfterGroup(nth, nEnd) :
            nEnd \in {NthGroupEnd(nth, d1) : d1 \in {RunEnd(nth, 1, Digits)}}})

BoolResult(b) == IF b THEN "true" ELSE "false"

\* The part of is_nth_child after its while loop, for the index the loop
\* computed and the match m of NTH_EXPR: "true", "false" or "NthExprError"
\* (the raise).  "if constant" and "if coefficient" are false for None and
\* for 0.
NthDecision(nth, index, m) ==
    IF nth = <<"o", "d", "d">> THEN BoolResult((index - 1) % 2 = 0)
    ELSE IF nth = <<"e", "v", "e", "n">> THEN BoolResult(index % 2 = 0)
    ELSE IF ~m.matched THEN "NthExprError"
    ELSE IF m.constant # None /\ m.constant # 0
         THEN IF m.coefficient # None /\ m.coefficient # 0
              THEN BoolResult((index - m.constant) % m.coefficient = 0)
              ELSE BoolResult(index = m.constant)
         ELSE IF m.coefficient # None /\ m.coefficient # 0
              THEN BoolResult(index % m.coefficient = 0)
              ELSE "true"

\* is_nth_child(el, nth)
IsNthChild(t, el, nth) ==
    Only({NthDecision(nth, index, m) :
            index \in {NthIndex(t, el)}, m \in {NthMatch(nth)}})

NthChildPrefix == <<"n", "t", "h", "-", "c", "h", "i", "l", "d", "(">>

\* The ends of the matches re.match(r"nth-child\((\S+)\)", name) can take.
NthChildCloses(name) ==
    {q \in (Len(NthChildPrefix) + 2)..Len(name) :
        /\ name[q] = ")"
        /\ \A k \in (Len(NthChildPrefix) + 1)..(q - 1) : name[k] \notin WhiteSpace}

\* get_pseudo_class_checker(name)(el)
PseudoCheck(t, name, el) ==
    IF StartsWith(name, NthChildPrefix) /\ NthChildCloses(name) # {}
    THEN Only({IsNthChild(t, el, nth) :
                  nth \in {SubSeq(name, Len(NthChildPrefix) + 1,
                                  Max(NthChildCloses(name)) - 1)}})
    ELSE IF name = <<"f", "i", "r", "s", "t", "-", "c", "h", "i", "l", "d">>
    THEN BoolResult(IsFirstContentNode(t,
                IF el = None THEN None ELSE PreviousSibling(t, el)))
    ELSE IF name = <<"l", "a", "s", "t", "-", "c", "h", "i", "l", "d">>
    THEN BoolResult(IsLastContentNode(t,
                IF el = None THEN None ELSE NextSibling(t, el)))
    ELSE "false"

\* The lambdas of get_attribute_checker for operator op and value, on an
\* element that has the attribute or not (has) and for which
\* el.get(attribute, '') is got.
AttributeTest(op, value, has, got) ==
    CASE op = <<"=">> -> has /\ got = value
      [] op = <<"~">> -> InSplit(got, value)
      [] op = <<"^">> -> StartsWith(got, value)
      [] op = <<"$">> -> EndsWith(got, value)
      [] op = <<"*">> -> Contains(got, value)
      [] op = <<"|">> -> got = value \/ StartsWith(got, value \o <<"-">>)
      [] OTHER -> has

\* get_attribute_checker(op, attribute, value)(el); every lambda calls a
\* method of el, which raises AttributeError when el is None.
AttributeCheck(t, f, el) ==
    IF el = None THEN "AttributeError"
    ELSE BoolResult(AttributeTest(f.op, f.value, HasAttr(t, el, f.attribute),
                                  AttrGetOrEmpty(t, el, f.attribute)))

FunctionResult(t, f, el) ==
    IF f.kind = "attr" THEN AttributeCheck(t, f, el)
    ELSE PseudoCheck(t, f.attribute, el)

\* What checker returns once a function refused or raised.
CheckerStop(r) ==
    IF r = "false" THEN FalseVal
    ELSE IF r = "AttributeError" THEN AttributeErr
    ELSE NthExprErr

\* The results of the functions on el, in order.
FunctionResults(t, functions, el) ==
    [i \in 1..Len(functions) |-> FunctionResult(t, functions[i], el)]

\* get_checker(functions)(el), given the results of the functions: el when
\* every function accepts, else what the first that does not accept yields.
CheckerOf(results, el) ==
    IF \A i \in 1..Len(results) : results[i] = "true" THEN el
    ELSE CheckerStop(results[Min({i \in 1..Len(results) : results[i] # "true"})])

CheckerOn(t, functions, el) ==
    Only({CheckerOf(r, el) : r \in {FunctionResults(t, functions, el)}})

Checker(t, functions, target) ==
    Only({CheckerOn(t, functions, el) : el \in {target}})

\* bool(x) of what checker returns: a node is true, None and False are not.
Truthy(r) == r >= 0

(***************************************************************************)
(* The matching steps of select().  A context is a record                  *)
(* [anchor, candidates]: the pair (context[0], context[1]) of the code.    *)
(***************************************************************************)
\* operator = None
NoOperator == <<>>

\* The anchors of a list of contexts: [entry[0] for entry in contexts].
Anchors(contexts) == [i \in 1..Len(contexts) |-> contexts[i].anchor]

\* The node a step looks at for candidate el: the nearest matching ancestor,
\* or for "+" the nearest matching earlier sibling.
StepTarget(t, c, op, el) ==
    IF op = <<"+">> THEN FindPreviousSibling(t, el, c) ELSE FindParent(t, el, c)

\* The exception evaluating candidate el raises, as a set (empty: none):
\* a method called on a candidate that is None, or a raise inside checker.
CandidateErrors(t, c, op, el) ==
    IF el = None THEN {AttributeErr}
    ELSE {Checker(t, c.functions, StepTarget(t, c, op, el))}
         \cap {AttributeErr, NthExprErr}

\* if checker(el.findParent(tag, find_dict)):
DescendantKeeps(t, c, el) ==
    Truthy(Checker(t, c.functions, FindParent(t, el, c)))

\* ChildKeeps without the comparison with el.parent: any matching ancestor
\* is accepted.
ChildKeepsAnyDepth(t, c, el) ==
    Truthy(Checker(t, c.functions, FindParent(t, el, c)))

\* if checker(el.findParent(tag, find_dict)) == el.parent:
\* (a Tag equals another structurally; an ancestor equal to the parent of el
\* is that parent, a finite tree being no part of itself)
ChildKeeps(t, c, el) ==
    Checker(t, c.functions, FindParent(t, el, c)) = ParentOf(t, el)

\* if checker(el.findPreviousSibling(tag, find_dict)) == el.previousSibling:
\* (None == None holds; a Tag equal to the immediate previous sibling matches
\* what that sibling matches, so the nearest match is that sibling)
AdjacentKeeps(t, c, el) ==
    Checker(t, c.functions, FindPreviousSibling(t, el, c)) = PreviousSibling(t, el)

\* context_matches of the descendant branch: the candidates kept, unmoved.
DescendantMatches(t, c, cands) ==
    SelectSeq(cands, LAMBDA el : DescendantKeeps(t, c, el))

\* The parents of a list of candidates.
ParentsOf(t, kept) == [i \in 1..Len(kept) |-> ParentOf(t, kept[i])]

\* context_matches of the child branch: the parents of the candidates kept.
ChildMatches(t, c, cands) ==
    Only({ParentsOf(t, kept) :
            kept \in {SelectSeq(cands, LAMBDA el : ChildKeeps(t, c, el))}})

\* The previous siblings of a list of candidates.
PreviousSiblingsOf(t, kept) == [i \in 1..Len(kept) |-> PreviousSibling(t, kept[i])]

\* context_matches of the "+" branch: the previous siblings of the
\* candidates kept.
AdjacentMatches(t, c, cands) ==
    Only({PreviousSiblingsOf(t, kept) :
            kept \in {SelectSeq(cands, LAMBDA el : AdjacentKeeps(t, c, el))}})

\* The contexts (match, [match]) of a list of matches.
SeedContexts(keep) ==
    [i \in 1..Len(keep) |-> [anchor |-> keep[i], candidates |-> <<keep[i]>>]]

\* context_matches of the first token for one context: what find_all finds
\* below its anchor and checker accepts.
SeedMatches(t, c, context) ==
    SelectSeq(FindAll(t, context.anchor, c),
              LAMBDA el : Truthy(Checker(t, c.functions, el)))

\* The first token: one context (match, [match]) for every match, context
\* after context.
RECURSIVE SeedFound(_, _, _)
SeedFound(t, c, contexts) ==
    IF contexts = <<>> THEN <<>>
    ELSE Only({SeedContexts(keep) : keep \in {SeedMatches(t, c, Head(contexts))}})
         \o SeedFound(t, c, Tail(contexts))

\* context_matches of one context in a narrowing step.
ContextMatches(t, c, op, cands) ==
    CASE op = <<" ">> -> DescendantMatches(t, c, cands)
      [] op = <<">">> -> ChildMatches(t, c, cands)
      [] op = <<"+">> -> AdjacentMatches(t, c, cands)

\* FoundEntry with the anchor replaced by the first surviving candidate.
FoundEntryMovesAnchor(context, m) ==
    IF m # <<>> THEN <<[anchor |-> m[1], candidates |-> m]>> ELSE <<>>

\* if context_matches: found.append((context[0], context_matches))
FoundEntry(context, m) ==
    IF m # <<>> THEN <<[anchor |-> context.anchor, candidates |-> m]>> ELSE <<>>

RECURSIVE NarrowFound(_, _, _, _)
NarrowFound(t, c, op, contexts) ==
    IF contexts = <<>> THEN <<>>
    ELSE Only({FoundEntry(Head(contexts), m) :
                  m \in {ContextMatches(t, c, op, Head(contexts).candidates)}})
         \o NarrowFound(t, c, op, Tail(contexts))

\* The candidates of all contexts in the order the loops visit them.
RECURSIVE AllCandidates(_)
AllCandidates(contexts) ==
    IF contexts = <<>> THEN <<>>
    ELSE Head(contexts).candidates \o AllCandidates(Tail(contexts))

\* The exceptions of a list of candidates, candidate by candidate.
ErrorsOf(t, c, op, cands) ==
    [i \in 1..Len(cands) |-> CandidateErrors(t, c, op, cands[i])]

\* The exception a narrowing step ends with ("ok": none): that of the first
\* candidate, in visiting order, whose evaluation raises.
FirstError(errors) ==
    IF \A i \in 1..Len(errors) : errors[i] = {} THEN "ok"
    ELSE IF AttributeErr \in errors[Min({i \in 1..Len(errors) : errors[i] # {}})]
    THEN "AttributeError"
    ELSE "NthExprError"

StepError(t, c, op, contexts) ==
    Only({FirstError(e) :
            e \in {ErrorsOf(t, c, op, cands) : cands \in {AllCandidates(contexts)}}})

\* A narrowing step that ended with exception status err, or with none.
NarrowOutcome(err, t, c, op, contexts) ==
    IF err # "ok" THEN [status |-> err, found |-> <<>>]
    ELSE [status |-> "ok", found |-> NarrowFound(t, c, op, contexts)]

\* MatchStep with the "~" raise moved inside the loop over the contexts: it
\* is not reached when no context is left.
MatchStepRaisesPerContext(t, c, op, contexts) ==
    IF op = NoOperator
    THEN [status |-> "ok", found |-> SeedFound(t, c, contexts)]
    ELSE IF op = <<"~">>
    THEN IF contexts = <<>> THEN [status |-> "ok", found |-> <<>>]
         ELSE [status |-> "NotImplementedError", found |-> <<>>]
    ELSE IF op \in {<<" ">>, <<">">>, <<"+">>}
    THEN Only({NarrowOutcome(err, t, c, op, contexts) :
                  err \in {StepError(t, c, op, contexts)}})
    ELSE [status |-> "ok", found |-> <<>>]

\* "Search contexts for matches": the if/elif chain on operator.  An
\* operator that is none of the five values leaves found empty.
MatchStep(t, c, op, contexts) ==
    IF op = NoOperator
    THEN [status |-> "ok", found |-> SeedFound(t, c, contexts)]
    ELSE IF op = <<"~">>
    THEN [status |-> "NotImplementedError", found |-> <<>>]
    ELSE IF op \in {<<" ">>, <<">">>, <<"+">>}
    THEN Only({NarrowOutcome(err, t, c, op, contexts) :
                  err \in {StepError(t, c, op, contexts)}})
    ELSE [status |-> "ok", found |-> <<>>]

\* What the token step leaves once the search ended with m: the remaining
\* selector and the new contexts, or the exception.
SearchOutcome(m, rest, contexts) ==
    [status   |-> m.status,
     selector |-> rest,
     found    |-> IF m.status = "ok" THEN m.found ELSE contexts]

\* The token step from the compiled token c on: more than one id raises.
CompiledOutcome(t, sel, c, op, contexts) ==
    IF Len(c.ids) > 1
    THEN [status   |-> "OnlySingleId",
          selector |-> RemoveToken(sel, c.token),
          found    |-> contexts]
    ELSE Only({SearchOutcome(m, RemoveToken(sel, c.token), contexts) :
                  m \in {MatchStep(t, c, op, contexts)}})

\* The handle_token branch of the loop: the status it ends with ("ok" when
\* it did not raise), the remaining selector and the new contexts.
TokenOutcome(t, sel, op, contexts) ==
    IF ~HasToken(sel)
    THEN [status |-> "NoMatch", selector |-> sel, found |-> contexts]
    ELSE Only({CompiledOutcome(t, sel, c, op, contexts) :
                  c \in {Compile(token) : token \in {TokenOf(sel)}}})

\* The else branch of the loop: the operator read and the remaining selector.
CombinatorOutcome(sel) ==
    IF HasOperator(sel)
    THEN Only({[operator |-> op, selector |-> RemoveOperator(sel, op)] :
                  op \in {OperatorOf(sel)}})
    ELSE [operator |-> <<" ">>, selector |-> sel]

\* select(soup, selector) run to its end from a loop state: the status it
\* ends with and the list it returns.
RECURSIVE RunSelect(_, _, _, _, _)
RECURSIVE AfterToken(_, _, _)
RECURSIVE AfterCombinator(_, _, _)
RunSelect(t, sel, ht, op, contexts) ==
    IF sel = <<>>
    THEN [status |-> "returned", result |-> Anchors(contexts)]
    ELSE IF ht
    THEN AfterToken(t, op, TokenOutcome(t, sel, op, contexts))
    ELSE AfterCombinator(t, contexts, CombinatorOutcome(sel))

AfterToken(t, op, o) ==
    IF o.status # "ok" THEN [status |-> o.status, result |-> <<>>]
    ELSE RunSelect(t, o.selector, FALSE, op, o.found)

AfterCombinator(t, contexts, o) ==
    RunSelect(t, o.selector, TRUE, o.operator, contexts)

\* select(t, sel)
Select(t, sel) ==
    RunSelect(t, sel, TRUE, NoOperator, <<[anchor |-> 0, candidates |-> <<>>]>>)

(***************************************************************************)
(* The inputs enumerated: document trees and selector strings.             *)
(***************************************************************************)
Element(name, class, attrs) ==
    [kind |-> "tag", name |-> name, class |-> class, attrs |-> attrs]

\* A whitespace-only text node.
WsText == [kind |-> "ws", name |-> <<>>, class |-> <<>>, attrs |-> {}]

XisY == {[name |-> <<"x">>, value |-> <<"y">>]}

ElA == Element(<<"a">>, <<>>, {})
ElB == Element(<<"b">>, <<>>, {})
ElC == Element(<<"c">>, <<>>, {})

\* The strict ancestors of node i under the parent map p.
RECURSIVE ShapeAncestors(_, _)
ShapeAncestors(p, i) ==
    IF i = 0 THEN {} ELSE {p[i]} \cup ShapeAncestors(p, p[i])

\* The parent maps of n nodes numbered in document order: a node follows
\* its predecessor as its child or as a later child of one of its ancestors.
Shapes(n) ==
    {p \in [1..n -> 0..(n - 1)] :
        /\ \A i \in 1..n : p[i] < i
        /\ \A i \in 2..n : p[i] \in ({i - 1} \cup ShapeAncestors(p, i - 1))}

\* The trees of n nodes with labels among L; only elements have children.
TreesOfSize(n, L) ==
    {t \in {[i \in 1..n |-> [parent |-> p[i], kind |-> l[i].kind,
                              name |-> l[i].name, class |-> l[i].class,
                              attrs |-> l[i].attrs]] :
                p \in Shapes(n), l \in [1..n -> L]} :
        \A i \in 1..n : t[i].parent # 0 => t[t[i].parent].kind = "tag"}

\* The trees of at most MaxNodes nodes with labels among L.
TreesOver(L) == UNION {TreesOfSize(n, L) : n \in 0..MaxNodes}

\* 'a b c': the shape of the documented 'div#main ul a'.
SelDescendantChain == <<"a", " ", "b", " ", "c">>

\* '.a.b'
SelTwoClasses == <<".", "a", ".", "b">>

\* 'a[x=y]'
SelTagAttribute == <<"a", "[", "x", "=", "y", "]">>

\* 'a + b'
SelAdjacent == <<"a", " ", "+", " ", "b">>

\* 'a > b': the shape of 'div > p'.
SelChild == <<"a", " ", ">", " ", "b">>

\* 'a b': the shape of 'div p'.
SelDescendant == <<"a", " ", "b">>

\* 'a ~ b'
SelGeneralSibling == <<"a", " ", "~", " ", "b">>

\* 'a:nth-child(foo)'
SelNthFoo == <<"a", ":", "n", "t", "h", "-", "c", "h", "i", "l", "d",
               "(", "f", "o", "o", ")">>

\* 'b:nth-child(2n+1)'
SelNthOdd == <<"b", ":", "n", "t", "h", "-", "c", "h", "i", "l", "d",
               "(", "2", "n", "+", "1", ")">>

\* '[x] + a'
SelAttributeAdjacent == <<"[", "x", "]", " ", "+", " ", "a">>

\* The selectors of the documented cases, each with the labels of the trees
\* it is run on.
Cases ==
    { [selector |-> SelDescendantChain, labels |-> {ElA, ElB, ElC}],
      [selector |-> SelTwoClasses,
       labels   |-> {ElA, Element(<<"a">>, <<<<"a">>>>, {}),
                     Element(<<"a">>, <<<<"a">>, <<"b">>>>, {})}],
      [selector |-> SelTagAttribute,
       labels   |-> {ElA, Element(<<"a">>, <<>>, XisY),
                     Element(<<"b">>, <<>>, XisY)}],
      [selector |-> SelAdjacent, labels |-> {ElA, ElB, WsText}],
      [selector |-> SelChild, labels |-> {ElA, ElB}],
      [selector |-> SelDescendant, labels |-> {ElA, ElB}],
      [selector |-> SelGeneralSibling, labels |-> {ElA, ElB}],
      [selector |-> SelNthFoo, labels |-> {ElA, WsText}],
      [selector |-> SelNthOdd, labels |-> {ElB, WsText}],
      [selector |-> SelAttributeAdjacent,
       labels   |-> {ElA, Element(<<"b">>, <<>>, XisY)}] }

\* The characters of the selector strings enumerated exhaustively.
ScanAlphabet == {"a", " ", ">", "+", "~", "[", "]"}

\* Every string over ScanAlphabet of at most MaxSelLen characters.
ScanSelectors == UNION {[1..n -> ScanAlphabet] : n \in 0..MaxSelLen}

\* The tree the exhaustive strings are run on:
\*   <a a="a"><a></a> <a></a></a><a></a>
ScanTree ==
    << [parent |-> 0, kind |-> "tag", name |-> <<"a">>, class |-> <<>>,
        attrs |-> {[name |-> <<"a">>, value |-> <<"a">>]}],
       [parent |-> 1, kind |-> "tag", name |-> <<"a">>, class |-> <<>>, attrs |-> {}],
       [parent |-> 1, kind |-> "ws", name |-> <<>>, class |-> <<>>, attrs |-> {}],
       [parent |-> 1, kind |-> "tag", name |-> <<"a">>, class |-> <<>>, attrs |-> {}],
       [parent |-> 0, kind |-> "tag", name |-> <<"a">>, class |-> <<>>, attrs |-> {}] >>

(***************************************************************************)
(* select() as a state machine: one action per branch of the while loop.   *)
(***************************************************************************)
\* The arguments of the calls enumerated: a documented selector on every
\* tree over its labels, or any string over ScanAlphabet on ScanTree.
Inputs ==
    UNION {{[soup |-> t, selector |-> case.selector] : t \in TreesOver(case.labels)} :
              case \in Cases}
    \cup {[soup |-> ScanTree, selector |-> sel] : sel \in ScanSelectors}

\* select(soup, selector) has been called: the assignments before the loop.
Init ==
    /\ \E in \in Inputs :
          /\ soup = in.soup
          /\ selector0 = in.selector
          /\ selector = in.selector
    /\ current_context = <<[anchor |-> 0, candidates |-> <<>>]>>
    /\ handle_token = TRUE
    /\ operator = NoOperator
    /\ status = "running"
    /\ result = <<>>
    /\ seeded = <<>>

\* What a token step with outcome o does to the state: an exception ends
\* the call; else the selector loses the token and the contexts are replaced.
\* seeded records the anchors the first token step found.
TokenEffect(o) ==
    IF o.status # "ok"
    THEN /\ status' = o.status
         /\ selector' = o.selector
         /\ handle_token' = FALSE
         /\ UNCHANGED <<current_context, seeded>>
    ELSE /\ selector' = o.selector
         /\ handle_token' = FALSE
         /\ current_context' = o.found
         /\ seeded' = IF operator = NoOperator THEN Anchors(o.found) ELSE seeded
         /\ UNCHANGED status

\* One pass of the loop with handle_token set: scan the rightmost token,
\* compile it and match it against the contexts, or raise.
TokenStep ==
    /\ status = "running"
    /\ selector # <<>>
    /\ handle_token
    /\ \E o \in {TokenOutcome(soup, selector, operator, current_context)} :
          TokenEffect(o)
    /\ UNCHANGED <<soup, selector0, operator, result>>

\* One pass of the loop with handle_token clear: read the combinator.
CombinatorStep ==
    /\ status = "running"
    /\ selector # <<>>
    /\ ~handle_token
    /\ handle_token' = TRUE
    /\ \E o \in {CombinatorOutcome(selector)} :
          operator' = o.operator /\ selector' = o.selector
    /\ UNCHANGED <<soup, selector0, current_context, status, result, seeded>>

\* The loop ends on an empty selector: return the anchors.
Return ==
    /\ status = "running"
    /\ selector = <<>>
    /\ status' = "returned"
    /\ result' = Anchors(current_context)
    /\ UNCHANGED <<soup, selector0, selector, handle_token, operator,
                   current_context, seeded>>

Next == TokenStep \/ CombinatorStep \/ Return

Spec == Init /\ [][Next]_vars

\* select() is one sequential call: the loop keeps running until it returns
\* or raises.
FairSpec == Spec /\ WF_vars(Next)

(***************************************************************************)
(* Properties.                                                             *)
(***************************************************************************)
Elements(t) == {el \in 1..Len(t) : t[el].kind = "tag"}

Named(t, name) == {el \in Elements(t) : t[el].name = name}

StrictlyIncreasing(q) == \A i, j \in 1..Len(q) : i < j => q[i] < q[j]

\* C1: 'A B C' returns only nodes matching C that lie inside a node matching
\* B that itself lies inside a node matching A.
C1_DescendantChain ==
    (status = "returned" /\ selector0 = SelDescendantChain) =>
        \A k \in 1..Len(result) :
            /\ result[k] \in Named(soup, <<"c">>)
            /\ \E u \in Ancestors(soup, result[k]) \cap Named(soup, <<"b">>) :
                  Ancestors(soup, u) \cap Named(soup, <<"a">>) # {}

\* C2: '.a.b' returns only nodes whose class attribute holds both a and b.
C2_AllClasses ==
    (status = "returned" /\ selector0 = SelTwoClasses) =>
        \A k \in 1..Len(result) :
            {<<"a">>, <<"b">>} \subseteq Range(ClassOf(soup, result[k]))

\* C3: 'a[x=y]' is one token: it returns exactly the elements whose tag is a
\* and whose attribute x equals y.
C3_TagWithAttribute ==
    (status = "returned" /\ selector0 = SelTagAttribute) =>
        Range(result) = {el \in Named(soup, <<"a">>) :
                            /\ HasAttr(soup, el, <<"x">>)
                            /\ AttrValue(soup, el, <<"x">>) = <<"y">>}

\* C4: 'a + b' returns no b that has no previous sibling or whose immediate
\* previous sibling does not match a.
C4_AdjacentSibling ==
    (status = "returned" /\ selector0 = SelAdjacent) =>
        \A k \in 1..Len(result) :
            PreviousSibling(soup, result[k]) \in Named(soup, <<"a">>)

\* The b elements whose direct parent is an a element.
ChildrenOfA(t) == {el \in Named(t, <<"b">>) : t[el].parent \in Named(t, <<"a">>)}

\* The b elements with an a element among their ancestors.
DescendantsOfA(t) ==
    {el \in Named(t, <<"b">>) : Ancestors(t, el) \cap Named(t, <<"a">>) # {}}

\* C5: 'a > b' returns exactly the b nodes whose direct parent is an a, and
\* its result is a subset of that of 'a b' on the same tree, which returns
\* the b nodes with an a at any ancestor depth.
C5_ChildSubsetOfDescendant ==
    (status = "returned" /\ selector0 = SelChild) =>
        /\ Range(result) = ChildrenOfA(soup)
        /\ Select(soup, SelDescendant).status = "returned"
        /\ Range(result) \subseteq Range(Select(soup, SelDescendant).result)
        /\ Range(Select(soup, SelDescendant).result) = DescendantsOfA(soup)

\* 'a > b' returned some b while 'a b' returns more on the same tree.
C5_Witness ==
    /\ status = "returned"
    /\ selector0 = SelChild
    /\ result # <<>>
    /\ Range(result) # Range(Select(soup, SelDescendant).result)

\* C6: 'a ~ b' never ends normally: once the call is over it has raised the
\* unsupported-combinator error, whatever the tree.
C6_GeneralSiblingFails ==
    selector0 = SelGeneralSibling =>
        status \in {"running", "NotImplementedError"}

\* 'a ~ b' raised on a tree in which no node matches b.
C6_Witness ==
    /\ selector0 = SelGeneralSibling
    /\ status = "NotImplementedError"
    /\ soup # <<>>
    /\ Named(soup, <<"b">>) = {}

\* C7: with an a element in the tree, 'a:nth-child(foo)' ends with the
\* invalid-nth-expression error, not with a result.
C7_InvalidNthRaises ==
    (selector0 = SelNthFoo /\ status # "running" /\ Named(soup, <<"a">>) # {}) =>
        status = "NthExprError"

\* C8: a call on a non-empty selector that returns normally has performed a
\* token step last.
C8_ReturnsAfterToken ==
    (status = "returned" /\ selector0 # <<>>) => ~handle_token

\* The first token step has been performed.
HasSeeded == ~(handle_token /\ operator = NoOperator)

\* C9: from the seeding step on, the anchors of the contexts are a
\* subsequence of the seeded matches, which are distinct and in document
\* order; the list returned is that sequence of anchors.
C9_AnchorsSubsequence ==
    (status \in {"running", "returned"} /\ HasSeeded) =>
        /\ StrictlyIncreasing(seeded)
        /\ StrictlyIncreasing(Anchors(current_context))
        /\ Range(Anchors(current_context)) \subseteq Range(seeded)
        /\ status = "returned" => result = Anchors(current_context)

\* A call returned after a step dropped some contexts, kept others and moved
\* a candidate away from its anchor.
C9_Witness ==
    /\ status = "returned"
    /\ result # <<>>
    /\ Len(result) < Len(seeded)
    /\ \E i \in 1..Len(current_context) :
          current_context[i].candidates # <<current_context[i].anchor>>

\* C10: select terminates: a token step that does not raise shortens the
\* remaining selector, a combinator step never lengthens it and is followed
\* by a token step, and the call eventually returns or raises.
C10_Terminates ==
    /\ [][(status = "running" /\ handle_token /\ status' = "running")
             => Len(selector') < Len(selector)]_vars
    /\ [][(status = "running" /\ ~handle_token /\ selector # <<>>)
             => (handle_token' /\ Len(selector') <= Len(selector))]_vars
    /\ <>(status # "running")

\* A call returned after a combinator step that removed nothing (the
\* descendant default) and the token step that followed it.
C10_Witness ==
    /\ status = "returned"
    /\ operator = <<" ">>
    /\ Len(selector0) = MaxSelLen

====
